---- MODULE Spec2Model ----
(***************************************************************************)
(* Model of del::event<R(Args...)> (src/delevent.h): an ordered registry   *)
(* of type-erased callables with attach / detach / detach_all / clear and  *)
(* an invoke-all call operator.                                            *)
(*                                                                         *)
(* A record of the registry is one heap-allocated handle:                  *)
(*   generic_callable_handle<T>  [variant, T, m_Func]                      *)
(*   object_callable_handle<T>   [variant, T, m_Obj, m_MemFunc]            *)
(* For the forwarding-reference overloads attach(T&&) / detach(T&&) the    *)
(* deduced T is `F&` for an lvalue argument of type F (m_Func is then a    *)
(* reference to the caller's variable) and `F` for an rvalue (m_Func is a  *)
(* copy of the value).                                                     *)
(***************************************************************************)
EXTENDS Integers, Sequences, FiniteSets

VARIABLES
  m_Callables,  \* the registry: sequence of handles, in attachment order
  store,        \* the caller's named callable variables: name -> current value
  calls,        \* the invocations performed by the last operation, in order
  log,          \* external log the logging lambdas L1..L3 append their index to
  op,           \* the last operation performed: its name, its probe, the number of records it removed
  ub,           \* TRUE once the program has executed undefined behaviour and crashed
  ptrs,         \* the addresses the unique_ptrs of m_Callables own, position by position
                \* (tracked by SpecLife only)
  destroyed,    \* for every handle allocated so far, by address: how often it was destroyed
  iter,         \* the range-for of operator() while a sweep is running step by step
                \* (SpecReentrant only): its iterators and the storage they point into
  dead,         \* the bound objects whose lifetime has ended (SpecObj only)
  touched       \* the bound objects the last operation dereferenced (SpecObj only)

\* The parts of the state only one specification tracks.
heap == <<ptrs, destroyed>>
objs == <<dead, touched>>
aux == <<heap, iter, objs>>

vars == <<m_Callables, store, calls, log, op, ub, aux>>

\* ---- bounds of the model ----
MaxLen == 3     \* attach is not taken on a registry of this size
MaxLog == 5     \* the external log is not grown beyond this length
MaxAlloc == 4   \* no more handles than this are allocated while the heap is tracked

\* ---- the universe of callables ----
FnVals  == {"f1", "f2"}         \* free functions; their addresses are values of one function pointer type
FnVars  == {"va"}               \* caller's named variable of that function pointer type
Lambdas == {"L1", "L2", "L3"}   \* caller's named captureless lambdas; each has its own closure type
Objs    == {"objA", "objB"}     \* objects of one class, identified by address
MemFns  == {"increment", "reset"}  \* member functions of that class
Vars    == FnVars \cup Lambdas

\* The static type of a caller's variable.
TypeOf(v) == IF v \in FnVars THEN "FnPtr" ELSE v

\* Argument expressions of the forwarding-reference overloads.
Rvalue(type, val) == [cat |-> "rvalue", type |-> type, v |-> val]
Lvalue(var)       == [cat |-> "lvalue", type |-> TypeOf(var), v |-> var]
FnArgs     == {Rvalue("FnPtr", f) : f \in FnVals} \cup {Lvalue(v) : v \in FnVars}
LambdaArgs == {Lvalue(l) : l \in Lambdas}
MemArgs    == Objs \X MemFns

\* Free functions of the same function pointer type that throw when called.
ThrowVals == {"t1", "t2"}
ThrowArgs == {Rvalue("FnPtr", t) : t \in ThrowVals}

NoProbe == [variant |-> "none"]

\* The argument a caller passes to operator(), for a dispatcher of one
\* parameter: an int (event<void(int)>) or a move-only handle
\* (event<void(std::unique_ptr<X>)>).  Args&& is an rvalue reference here.
ArgVals == {[type |-> "int", val |-> "7"], [type |-> "unique_ptr", val |-> "p"]}

\* The callables whose parameter is taken by value (the others take a reference).
TakesByValue == {"f1", "increment"}

\* The caller's argument object after a callee has move-constructed its
\* parameter from it: an int is copied, a unique_ptr is left null.
MovedFrom(a) == IF a.type = "unique_ptr" THEN [type |-> a.type, val |-> "null"] ELSE a

\* generic_callable_handle<T>(C&& c): T is deduced from the value category.
generic_callable_handle(arg) ==
  [variant |-> "generic",
   T       |-> [type |-> arg.type, isRef |-> (arg.cat = "lvalue")],
   m_Func  |-> arg.v]

\* object_callable_handle<T>(T* obj, R (T::*memFunc)(Args...))
object_callable_handle(obj, memFn) ==
  [variant |-> "object", T |-> "Counter", m_Obj |-> obj, m_MemFunc |-> memFn]

\* The callable value m_Func denotes: read through the reference when T is F&.
FuncValue(h, st) == IF h.T.isRef THEN st[h.m_Func] ELSE h.m_Func

\* generic_callable_handle<T>::compare(bc)
generic_compare(self, bc, st) ==
  /\ bc.variant = "generic"
  /\ bc.T = self.T                              \* dynamic_cast<generic_callable_handle<T>*>
  /\ FuncValue(bc, st) = FuncValue(self, st)    \* cc->m_Func == m_Func

\* object_callable_handle<T>::compare(bc)
object_compare(self, bc) ==
  /\ bc.variant = "object"
  /\ bc.T = self.T                              \* dynamic_cast<object_callable_handle<T>*>
  /\ bc.m_Obj = self.m_Obj
  /\ bc.m_MemFunc = self.m_MemFunc

\* base_callable::compare, dispatched on the dynamic type of self.
compare(self, bc, st) ==
  IF self.variant = "generic" THEN generic_compare(self, bc, st)
                              ELSE object_compare(self, bc)

\* base_callable::invoke, dispatched on the dynamic type: what gets called.
invoke(h, st) ==
  IF h.variant = "generic"
    THEN [kind |-> "call", fn |-> FuncValue(h, st)]              \* m_Func(args...)
    ELSE [kind |-> "memcall", obj |-> h.m_Obj, fn |-> h.m_MemFunc]  \* (m_Obj->*m_MemFunc)(args...)

\* Variant of find_if that keeps scanning and returns the last match.
find_if_last(cs, i, temp, st) ==
  LET M == {k \in i..Len(cs) : compare(temp, cs[k], st)}
  IN IF M = {} THEN Len(cs) + 1 ELSE CHOOSE k \in M : \A j \in M : j <= k

\* std::find_if(begin, end, compPred): index of the first match, Len+1 for end().
RECURSIVE find_if(_, _, _, _)
find_if(cs, i, temp, st) ==
  IF i > Len(cs) THEN Len(cs) + 1
  ELSE IF compare(temp, cs[i], st) THEN i
  ELSE find_if(cs, i + 1, temp, st)

\* Variant of erase that overwrites pos with the last element and pops the back.
erase_swap_pop(cs, pos) ==
  [i \in 1..(Len(cs) - 1) |-> IF i = pos THEN cs[Len(cs)] ELSE cs[i]]

\* std::vector::erase(pos) for a dereferenceable pos.
erase(cs, pos) == [i \in 1..(Len(cs) - 1) |-> IF i < pos THEN cs[i] ELSE cs[i + 1]]

\* detach_impl(temp): erase(find_if(...)).  Erasing end() is undefined
\* behaviour; the outcomes are: nothing visible happens, the last element is
\* dropped (the vector's finish pointer is decremented), or the program crashes.
detach_impl(cs, temp, st) ==
  LET pos == find_if(cs, 1, temp, st) IN
  IF pos <= Len(cs)
    THEN {[callables |-> erase(cs, pos), ub |-> FALSE]}
    ELSE {[callables |-> cs, ub |-> FALSE], [callables |-> cs, ub |-> TRUE]}
         \cup (IF Len(cs) > 0 THEN {[callables |-> SubSeq(cs, 1, Len(cs) - 1), ub |-> FALSE]}
                              ELSE {})

\* Variant of remove_if that drops only the first match.
remove_if_first(cs, i, temp, st) ==
  LET M == {k \in i..Len(cs) : compare(temp, cs[k], st)}
  IN IF M = {} THEN SubSeq(cs, i, Len(cs))
     ELSE LET k == CHOOSE x \in M : \A j \in M : x <= j
          IN SubSeq(cs, i, k - 1) \o SubSeq(cs, k + 1, Len(cs))

\* std::remove_if(begin, end, compPred): the kept elements, in order.
RECURSIVE remove_if(_, _, _, _)
remove_if(cs, i, temp, st) ==
  IF i > Len(cs) THEN <<>>
  ELSE IF compare(temp, cs[i], st) THEN remove_if(cs, i + 1, temp, st)
  ELSE <<cs[i]>> \o remove_if(cs, i + 1, temp, st)

\* Variant of detach_all_impl with the single-iterator erase(remove_if(...)):
\* with no match it erases at end() and the last element is dropped.
detach_all_impl_single(cs, temp, st) ==
  IF \E k \in DOMAIN cs : compare(temp, cs[k], st)
    THEN SelectSeq(cs, LAMBDA c : ~compare(temp, c, st))
    ELSE SubSeq(cs, 1, Len(cs) - 1)

\* detach_all_impl(temp): erase(remove_if(...), end()).
detach_all_impl(cs, temp, st) == remove_if(cs, 1, temp, st)

\* std::forward<Args>(args) into the callee: the state of the caller's
\* argument object once the callee at h has been called with it.
forward(h, st, a) == IF invoke(h, st).fn \in TakesByValue THEN MovedFrom(a) ELSE a

\* Variant of the sweep that goes on to the next element after a callee threw.
RECURSIVE sweep_catching(_, _, _, _)
sweep_catching(cs, i, st, a) ==
  IF i > Len(cs) THEN <<>>
  ELSE <<[pos |-> i, target |-> invoke(cs[i], st), arg |-> a]>>
         \o sweep_catching(cs, i + 1, st, forward(cs[i], st, a))

\* Variant of the sweep that walks the registry back to front.
RECURSIVE sweep_backward(_, _, _, _)
sweep_backward(cs, i, st, a) ==
  IF i > Len(cs) THEN <<>>
  ELSE sweep_backward(cs, i + 1, st, a)
         \o <<[pos |-> i, target |-> invoke(cs[i], st), arg |-> a]>>

\* The range-for of operator(): every element, front to back, each called
\* with a reference to the same argument object.  There is no try block: an
\* exception thrown by a callee leaves the loop.
RECURSIVE sweep(_, _, _, _)
sweep(cs, i, st, a) ==
  IF i > Len(cs) THEN <<>>
  ELSE <<[pos |-> i, target |-> invoke(cs[i], st), arg |-> a]>>
         \o (IF invoke(cs[i], st).fn \in ThrowVals THEN <<>>
             ELSE sweep(cs, i + 1, st, forward(cs[i], st, a)))

\* The exception that leaves operator(), named after the function that threw
\* it: the one thrown by the last callee called, if that callee throws.
thrown(cl) ==
  IF cl # <<>> /\ cl[Len(cl)].target.fn \in ThrowVals
    THEN cl[Len(cl)].target.fn ELSE "none"

\* What the called functions append to the external log: lambda Lk appends k.
LambdaIndex(l) == CASE l = "L1" -> 1 [] l = "L2" -> 2 [] l = "L3" -> 3
RECURSIVE logged(_)
logged(cl) ==
  IF cl = <<>> THEN <<>>
  ELSE (IF Head(cl).target.kind = "call" /\ Head(cl).target.fn \in Lambdas
          THEN <<LambdaIndex(Head(cl).target.fn)>> ELSE <<>>) \o logged(Tail(cl))

\* No range-for is running.
NoSweep == [active |-> FALSE, pos |-> 0, end |-> 0, buf |-> <<>>, freed |-> FALSE,
            valid |-> TRUE, read |-> "none", arg |-> [type |-> "none", val |-> "none"]]

\* ---- state after construction ----
Init ==
  /\ m_Callables = <<>>
  /\ store \in {s \in [Vars -> FnVals \cup Lambdas] :
                  /\ \A v \in FnVars : s[v] \in FnVals
                  /\ \A l \in Lambdas : s[l] = l}
  /\ calls = <<>>
  /\ log = <<>>
  /\ op = [name |-> "construct", probe |-> NoProbe, removed |-> 0]
  /\ ub = FALSE
  /\ ptrs = <<>>
  /\ destroyed = <<>>
  /\ iter = NoSweep
  /\ dead = {}
  /\ touched = {}

\* ---- operations ----
\* Variant of emplace_back that skips a handle equal to one already stored.
emplace_back_unique(h) ==
  /\ ~ub
  /\ Len(m_Callables) < MaxLen
  /\ m_Callables' = IF \E k \in DOMAIN m_Callables : m_Callables[k] = h
                      THEN m_Callables ELSE Append(m_Callables, h)
  /\ op' = [name |-> "attach", probe |-> h, removed |-> 0]
  /\ calls' = <<>>
  /\ UNCHANGED <<store, log, ub>>

\* m_Callables.emplace_back(new ...handle(...))
emplace_back(h) ==
  /\ ~ub
  /\ Len(m_Callables) < MaxLen
  /\ m_Callables' = Append(m_Callables, h)
  /\ op' = [name |-> "attach", probe |-> h, removed |-> 0]
  /\ calls' = <<>>
  /\ UNCHANGED <<store, log, ub>>

\* event::attach(T&& callback)
attach(arg) == emplace_back(generic_callable_handle(arg))

\* event::attach(T& obj, R (T::*memFn)(Args...))
attach_mem(obj, memFn) == emplace_back(object_callable_handle(obj, memFn))

detach_with(temp) ==
  /\ ~ub
  /\ \E out \in detach_impl(m_Callables, temp, store) :
       /\ m_Callables' = out.callables
       /\ ub' = out.ub
       /\ op' = [name |-> "detach", probe |-> temp,
                 removed |-> Len(m_Callables) - Len(out.callables)]
  /\ calls' = <<>>
  /\ UNCHANGED <<store, log>>

\* event::detach(T&& callback)
detach(arg) == detach_with(generic_callable_handle(arg))

\* event::detach(T& obj, R (T::*memFn)(Args...))
detach_mem(obj, memFn) == detach_with(object_callable_handle(obj, memFn))

detach_all_with(temp) ==
  /\ ~ub
  /\ m_Callables' = detach_all_impl(m_Callables, temp, store)
  /\ op' = [name |-> "detach_all", probe |-> temp,
            removed |-> Len(m_Callables) - Len(m_Callables')]
  /\ calls' = <<>>
  /\ UNCHANGED <<store, log, ub>>

\* event::detach_all(T&& callback)
detach_all(arg) == detach_all_with(generic_callable_handle(arg))

\* event::detach_all(T& obj, R (T::*memFn)(Args...))
detach_all_mem(obj, memFn) == detach_all_with(object_callable_handle(obj, memFn))

\* Variant of clear that only pops the last record.
clear_pop ==
  /\ ~ub
  /\ m_Callables' = SubSeq(m_Callables, 1, Len(m_Callables) - 1)
  /\ op' = [name |-> "clear", probe |-> NoProbe, removed |-> Len(m_Callables) - Len(m_Callables')]
  /\ calls' = <<>>
  /\ UNCHANGED <<store, log, ub>>

\* event::clear()
clear ==
  /\ ~ub
  /\ m_Callables' = <<>>
  /\ op' = [name |-> "clear", probe |-> NoProbe, removed |-> Len(m_Callables)]
  /\ calls' = <<>>
  /\ UNCHANGED <<store, log, ub>>

\* Variant of operator() that drops the records once it has called them.
operator_call_once(a) ==
  /\ ~ub
  /\ calls' = sweep(m_Callables, 1, store, a)
  /\ Len(log) + Len(logged(calls')) <= MaxLog
  /\ log' = log \o logged(calls')
  /\ op' = [name |-> "invoke", probe |-> NoProbe, removed |-> 0, arg |-> a,
            thrown |-> thrown(calls')]
  /\ m_Callables' = <<>>
  /\ UNCHANGED <<store, ub>>

\* event::operator()(Args&&... args)
operator_call(a) ==
  /\ ~ub
  /\ calls' = sweep(m_Callables, 1, store, a)
  /\ Len(log) + Len(logged(calls')) <= MaxLog
  /\ log' = log \o logged(calls')
  /\ op' = [name |-> "invoke", probe |-> NoProbe, removed |-> 0, arg |-> a,
            thrown |-> thrown(calls')]
  /\ UNCHANGED <<m_Callables, store, ub>>

\* The caller assigns another function to one of its function pointer variables.
Reassign(var, val) ==
  /\ ~ub
  /\ store[var] # val
  /\ store' = [store EXCEPT ![var] = val]
  /\ op' = [name |-> "assign", probe |-> NoProbe, removed |-> 0]
  /\ calls' = <<>>
  /\ UNCHANGED <<m_Callables, log, ub>>

\* ---- specifications ----
\* Every operation, on function pointers and bound member functions.
Next ==
  \/ (\E arg \in FnArgs : attach(arg)) /\ UNCHANGED aux
  \/ (\E m \in MemArgs : attach_mem(m[1], m[2])) /\ UNCHANGED aux
  \/ (\E arg \in FnArgs : detach(arg)) /\ UNCHANGED aux
  \/ (\E m \in MemArgs : detach_mem(m[1], m[2])) /\ UNCHANGED aux
  \/ (\E arg \in FnArgs : detach_all(arg)) /\ UNCHANGED aux
  \/ (\E m \in MemArgs : detach_all_mem(m[1], m[2])) /\ UNCHANGED aux
  \/ clear /\ UNCHANGED aux
  \/ (\E a \in ArgVals : operator_call(a)) /\ UNCHANGED aux
  \/ (\E var \in FnVars, val \in FnVals : Reassign(var, val)) /\ UNCHANGED aux

Spec == Init /\ [][Next]_vars

\* Only attach calls of plain callables (function pointers and lambdas) and
\* invoke calls, on an initially empty dispatcher.
NextAttach ==
  \/ (\E arg \in FnArgs \cup LambdaArgs : attach(arg)) /\ UNCHANGED aux
  \/ (\E a \in ArgVals : operator_call(a)) /\ UNCHANGED aux
  \/ (\E var \in FnVars, val \in FnVals : Reassign(var, val)) /\ UNCHANGED aux

SpecAttach == Init /\ [][NextAttach]_vars

\* The logging lambdas L1..L3, each attached while it is not in the registry:
\* attach, detach of an attached lambda, detach_all, clear and invoke, with
\* the external log growing.
HasMatch(temp) == \E i \in DOMAIN m_Callables : compare(temp, m_Callables[i], store)

NextLog ==
  \/ (\E arg \in LambdaArgs : ~HasMatch(generic_callable_handle(arg)) /\ attach(arg))
       /\ UNCHANGED aux
  \/ (\E arg \in LambdaArgs : HasMatch(generic_callable_handle(arg)) /\ detach(arg))
       /\ UNCHANGED aux
  \/ (\E arg \in LambdaArgs : detach_all(arg)) /\ UNCHANGED aux
  \/ clear /\ UNCHANGED aux
  \/ (\E a \in ArgVals : operator_call(a)) /\ UNCHANGED aux

SpecLog == Init /\ [][NextLog]_vars

\* Function pointers, some of which throw when called: attach, detach_all,
\* clear and invoke.
NextThrow ==
  \/ (\E arg \in FnArgs \cup ThrowArgs : attach(arg)) /\ UNCHANGED aux
  \/ (\E arg \in FnArgs \cup ThrowArgs : detach_all(arg)) /\ UNCHANGED aux
  \/ clear /\ UNCHANGED aux
  \/ (\E a \in ArgVals : operator_call(a)) /\ UNCHANGED aux

SpecThrow == Init /\ [][NextThrow]_vars

\* ---- the handles on the heap ----
\* Positions of cs whose record the probe p matches.
MatchPositions(cs, p, st) == {i \in DOMAIN cs : compare(p, cs[i], st)}

\* ~unique_ptr<base_callable> run on the owners of the handles at addresses ids.
unique_ptr_dtor(d, ids) == [i \in DOMAIN d |-> IF i \in ids THEN d[i] + 1 ELSE d[i]]

\* The positions of cs that a detach step, which led to cs2, erased.
detach_erased(cs, cs2, temp, st) ==
  IF Len(cs2) = Len(cs) THEN {}
  ELSE IF find_if(cs, 1, temp, st) <= Len(cs) THEN {find_if(cs, 1, temp, st)}
  ELSE {Len(cs)}

\* The vector of unique_ptrs once the positions gone are erased: the owners
\* at those positions are destroyed, the others move up in order.
erase_owners(gone) ==
  /\ ptrs' = [i \in 1..(Len(ptrs) - Cardinality(gone)) |->
               ptrs[CHOOSE k \in DOMAIN ptrs \ gone :
                      Cardinality({j \in DOMAIN ptrs \ gone : j < k}) = i - 1]]
  /\ destroyed' = unique_ptr_dtor(destroyed, {ptrs[k] : k \in gone})

\* attach: new ...handle(...) allocates one handle, emplace_back stores its owner.
attach_owner ==
  /\ Len(destroyed) < MaxAlloc
  /\ ptrs' = Append(ptrs, Len(destroyed) + 1)
  /\ destroyed' = Append(destroyed, 0)

\* The implicit ~event(): the vector destroys every owner it holds.
destroy_event ==
  /\ ~ub
  /\ m_Callables' = <<>>
  /\ erase_owners(DOMAIN ptrs)
  /\ op' = [name |-> "destroy", probe |-> NoProbe, removed |-> Len(m_Callables)]
  /\ calls' = <<>>
  /\ UNCHANGED <<store, log, ub>>

\* The callables the lifecycle runs use: one function passed as an rvalue, one
\* passed through a variable, one member function on each of two objects.
LifeFnArgs  == {Rvalue("FnPtr", "f1")} \cup {Lvalue(v) : v \in FnVars}
LifeMemArgs == Objs \X {"increment"}
LifeArgVals == {[type |-> "int", val |-> "7"]}

\* Every operation up to the destruction of the dispatcher, with the heap tracked.
NextLife ==
  \/ /\ op.name # "destroy"
     /\ \E arg \in LifeFnArgs : attach(arg)
     /\ attach_owner
     /\ UNCHANGED <<iter, objs>>
  \/ /\ op.name # "destroy"
     /\ \E m \in LifeMemArgs : attach_mem(m[1], m[2])
     /\ attach_owner
     /\ UNCHANGED <<iter, objs>>
  \/ /\ op.name # "destroy"
     /\ \E arg \in LifeFnArgs :
          /\ detach(arg)
          /\ erase_owners(detach_erased(m_Callables, m_Callables',
                                        generic_callable_handle(arg), store))
     /\ UNCHANGED <<iter, objs>>
  \/ /\ op.name # "destroy"
     /\ \E m \in LifeMemArgs :
          /\ detach_mem(m[1], m[2])
          /\ erase_owners(detach_erased(m_Callables, m_Callables',
                                        object_callable_handle(m[1], m[2]), store))
     /\ UNCHANGED <<iter, objs>>
  \/ /\ op.name # "destroy"
     /\ \E arg \in LifeFnArgs :
          /\ detach_all(arg)
          /\ erase_owners(MatchPositions(m_Callables, generic_callable_handle(arg), store))
     /\ UNCHANGED <<iter, objs>>
  \/ /\ op.name # "destroy"
     /\ \E m \in LifeMemArgs :
          /\ detach_all_mem(m[1], m[2])
          /\ erase_owners(MatchPositions(m_Callables, object_callable_handle(m[1], m[2]), store))
     /\ UNCHANGED <<iter, objs>>
  \/ /\ op.name # "destroy"
     /\ clear
     /\ erase_owners(DOMAIN ptrs)
     /\ UNCHANGED <<iter, objs>>
  \/ /\ op.name # "destroy"
     /\ \E a \in LifeArgVals : operator_call(a)
     /\ UNCHANGED aux
  \/ /\ op.name # "destroy"
     /\ destroy_event
     /\ UNCHANGED <<iter, objs>>

SpecLife == Init /\ [][NextLife]_vars

\* ---- a callback that changes the registry during the sweep ----
\* Free functions of the dispatcher's signature whose body calls, on the same
\* dispatcher e: e.attach(&f1), e.detach(&f1), e.detach_all(&f1), e.clear().
ReentrantVals == {"r_attach", "r_detach", "r_detach_all", "r_clear"}
ReentrantArgs == {Rvalue("FnPtr", f) : f \in {"f1"} \cup ReentrantVals}
CallbackArg   == Rvalue("FnPtr", "f1")

\* The body of the callee fn run on the registry cs: the outcomes, each with
\* the registry it leaves, the positions it erased and whether it grew cs.
callback_body(fn, cs, st) ==
  LET temp == generic_callable_handle(CallbackArg) IN
  CASE fn = "r_attach" ->
         {[callables |-> Append(cs, temp), ub |-> FALSE, erased |-> {}, grew |-> TRUE]}
    [] fn = "r_detach" ->
         {[callables |-> out.callables, ub |-> out.ub, grew |-> FALSE,
           erased |-> detach_erased(cs, out.callables, temp, st)] :
            out \in detach_impl(cs, temp, st)}
    [] fn = "r_detach_all" ->
         {[callables |-> detach_all_impl(cs, temp, st), ub |-> FALSE, grew |-> FALSE,
           erased |-> MatchPositions(cs, temp, st)]}
    [] fn = "r_clear" ->
         {[callables |-> <<>>, ub |-> FALSE, erased |-> DOMAIN cs, grew |-> FALSE]}
    [] OTHER ->
         {[callables |-> cs, ub |-> FALSE, erased |-> {}, grew |-> FALSE]}

\* The storage buf after the vector changed in place to cs2: the slots past
\* the new end keep the bits of the owner they last held.
slots(buf, cs2) ==
  [i \in 1..(IF Len(buf) > Len(cs2) THEN Len(buf) ELSE Len(cs2)) |->
     IF i <= Len(cs2) THEN cs2[i] ELSE buf[i]]

\* operator(): auto __begin = m_Callables.begin(), __end = m_Callables.end();
sweep_begin(a) ==
  /\ ~ub
  /\ ~iter.active
  /\ iter' = [active |-> TRUE, pos |-> 1, end |-> Len(m_Callables) + 1,
              buf |-> m_Callables, freed |-> FALSE, valid |-> TRUE,
              read |-> "none", arg |-> a]
  /\ calls' = <<>>
  /\ op' = [name |-> "invoke", probe |-> NoProbe, removed |-> 0, arg |-> a,
            thrown |-> "none"]
  /\ UNCHANGED <<m_Callables, store, log, ub>>

\* One turn of the range-for: __begin != __end; auto& c = *__begin;
\* c->invoke(std::forward<Args>(args)...); ++__begin.  The read of *__begin
\* is defined when __begin was not invalidated and points below the current
\* end; otherwise it is undefined behaviour: the program crashes, or the
\* owner whose bits are still in the slot is called.
sweep_step ==
  /\ ~ub
  /\ iter.active
  /\ iter.pos # iter.end
  /\ LET live == ~iter.freed /\ iter.valid /\ iter.pos <= Len(m_Callables)
         h    == iter.buf[iter.pos]
     IN \E crash \in (IF live THEN {FALSE} ELSE BOOLEAN) :
          IF crash
            THEN /\ ub' = TRUE
                 /\ iter' = [iter EXCEPT !.active = FALSE, !.read = "invalid"]
                 /\ op' = [name |-> "sweep_step", probe |-> NoProbe, removed |-> 0]
                 /\ UNCHANGED <<m_Callables, calls>>
            ELSE \E out \in callback_body(invoke(h, store).fn, m_Callables, store),
                    realloc \in BOOLEAN :
                   /\ Len(out.callables) <= MaxLen
                   /\ realloc => out.grew
                   /\ m_Callables' = out.callables
                   /\ ub' = out.ub
                   /\ calls' = Append(calls, [pos |-> iter.pos, target |-> invoke(h, store),
                                              arg |-> iter.arg])
                   /\ op' = [name |-> "sweep_step", probe |-> NoProbe,
                             removed |-> Cardinality(out.erased)]
                   /\ iter' = [active |-> ~out.ub,
                               pos    |-> iter.pos + 1,
                               end    |-> iter.end,
                               buf    |-> IF iter.freed \/ realloc THEN iter.buf
                                          ELSE slots(iter.buf, out.callables),
                               freed  |-> iter.freed \/ realloc,
                               valid  |-> iter.valid /\ \A k \in out.erased : k > iter.pos,
                               read   |-> IF live THEN "live" ELSE "invalid",
                               arg    |-> forward(h, store, iter.arg)]
  /\ UNCHANGED <<store, log>>

\* __begin == __end: the range-for and operator() return.
sweep_end ==
  /\ ~ub
  /\ iter.active
  /\ iter.pos = iter.end
  /\ iter' = [iter EXCEPT !.active = FALSE]
  /\ op' = [name |-> "sweep_end", probe |-> NoProbe, removed |-> 0]
  /\ UNCHANGED <<m_Callables, store, calls, log, ub>>

\* The caller's operations between sweeps, and the sweep step by step.
NextReentrant ==
  \/ ~iter.active /\ (\E arg \in ReentrantArgs : attach(arg)) /\ UNCHANGED aux
  \/ ~iter.active /\ clear /\ UNCHANGED aux
  \/ (\E a \in LifeArgVals : sweep_begin(a)) /\ UNCHANGED <<heap, objs>>
  \/ sweep_step /\ UNCHANGED <<heap, objs>>
  \/ sweep_end /\ UNCHANGED <<heap, objs>>

SpecReentrant == Init /\ [][NextReentrant]_vars

\* ---- bound objects whose lifetime ends ----
\* Variant of compare that reads the two objects (an operator== on T).
derefs_compare_values(self, bc) ==
  IF self.variant = "object" /\ bc.variant = "object" /\ bc.T = self.T
    THEN {self.m_Obj, bc.m_Obj} ELSE {}

\* The bound objects compare(bc) dereferences: none.  The dynamic_cast
\* inspects the handle bc; oc->m_Obj == m_Obj and oc->m_MemFunc == m_MemFunc
\* compare the stored pointers.
derefs_compare(self, bc) == {}

\* The bound object invoke dereferences: (m_Obj->*m_MemFunc)(args...).
derefs_invoke(h) == IF h.variant = "object" THEN {h.m_Obj} ELSE {}

\* The operation dereferenced an object whose lifetime has ended.
InvalidAccess == touched \cap dead # {}

\* What detach_impl(temp) dereferences: find_if calls temp.compare on the
\* records up to the first match.
detach_derefs(cs, temp, st) ==
  UNION {derefs_compare(temp, cs[i]) :
           i \in {k \in DOMAIN cs : k <= find_if(cs, 1, temp, st)}}

\* What detach_all_impl(temp) dereferences: remove_if calls temp.compare on
\* every record.
detach_all_derefs(cs, temp) == UNION {derefs_compare(temp, cs[i]) : i \in DOMAIN cs}

\* What the sweep dereferences: the object of every bound record it called.
sweep_derefs(cs, cl) == UNION {derefs_invoke(cs[cl[i].pos]) : i \in DOMAIN cl}

\* The lifetime of the caller's object o ends (it is deleted or goes out of
\* scope); the dispatcher is not told.
DestroyObject(o) ==
  /\ ~ub
  /\ o \notin dead
  /\ dead' = dead \cup {o}
  /\ touched' = {}
  /\ op' = [name |-> "destroy_object", probe |-> NoProbe, removed |-> 0]
  /\ calls' = <<>>
  /\ UNCHANGED <<m_Callables, store, log, ub>>

ObjFnArgs == {Rvalue("FnPtr", "f1")}

\* The operations on a dispatcher whose bound objects may die; a run ends at
\* the first access to a dead object.
NextObj ==
  \/ /\ ~InvalidAccess
     /\ \E arg \in ObjFnArgs : attach(arg)
     /\ touched' = {}
     /\ UNCHANGED <<heap, iter, dead>>
  \/ /\ ~InvalidAccess
     /\ \E m \in MemArgs : m[1] \notin dead /\ attach_mem(m[1], m[2])
     /\ touched' = {}
     /\ UNCHANGED <<heap, iter, dead>>
  \/ /\ ~InvalidAccess
     /\ \E arg \in ObjFnArgs :
          /\ detach(arg)
          /\ touched' = detach_derefs(m_Callables, generic_callable_handle(arg), store)
     /\ UNCHANGED <<heap, iter, dead>>
  \/ /\ ~InvalidAccess
     /\ \E m \in MemArgs :
          /\ detach_mem(m[1], m[2])
          /\ touched' = detach_derefs(m_Callables, object_callable_handle(m[1], m[2]), store)
     /\ UNCHANGED <<heap, iter, dead>>
  \/ /\ ~InvalidAccess
     /\ \E arg \in ObjFnArgs :
          /\ detach_all(arg)
          /\ touched' = detach_all_derefs(m_Callables, generic_callable_handle(arg))
     /\ UNCHANGED <<heap, iter, dead>>
  \/ /\ ~InvalidAccess
     /\ \E m \in MemArgs :
          /\ detach_all_mem(m[1], m[2])
          /\ touched' = detach_all_derefs(m_Callables, object_callable_handle(m[1], m[2]))
     /\ UNCHANGED <<heap, iter, dead>>
  \/ /\ ~InvalidAccess
     /\ clear
     /\ touched' = {}
     /\ UNCHANGED <<heap, iter, dead>>
  \/ /\ ~InvalidAccess
     /\ \E a \in LifeArgVals :
          /\ operator_call(a)
          /\ touched' = sweep_derefs(m_Callables, calls')
     /\ UNCHANGED <<heap, iter, dead>>
  \/ /\ ~InvalidAccess
     /\ \E o \in Objs : DestroyObject(o)
     /\ UNCHANGED <<heap, iter>>

SpecObj == Init /\ [][NextObj]_vars

\* ---- properties ----
\* cs without its element at position k.
Without(cs, k) == SubSeq(cs, 1, k - 1) \o SubSeq(cs, k + 1, Len(cs))
\* One call per position of cs, in position order.
EachOnceInOrder(cl, cs) ==
  /\ Len(cl) = Len(cs)
  /\ \A i \in DOMAIN cl : cl[i].pos = i

\* C1: starting from an empty dispatcher and attaching N plain callables (each
\* attach appends the new record at the end), one invoke call calls each of
\* the N records exactly once, in attachment order.
C1_AttachThenInvokeInOrder ==
  [][ /\ (op'.name = "attach" =>
            /\ op'.probe.variant = "generic"
            /\ m_Callables' = m_Callables \o <<op'.probe>>)
      /\ (op'.name = "invoke" =>
            /\ EachOnceInOrder(calls', m_Callables)
            /\ \A i \in DOMAIN calls' :
                 /\ calls'[i].target.kind = "call"
                 /\ calls'[i].target.fn =
                      (IF m_Callables[i].T.isRef THEN store[m_Callables[i].m_Func]
                                                 ELSE m_Callables[i].m_Func)) ]_vars

C1_Witness ==
  /\ op.name = "invoke"
  /\ Len(calls) >= 3
  /\ calls[1].target # calls[2].target
  /\ calls[2].target # calls[3].target

\* C2: when at least one record matches the probe, detach removes exactly one
\* record, the matching one earliest in attachment order; every other record
\* (later matches included) stays, in its previous relative order.
C2_DetachRemovesEarliestMatch ==
  [][ (op'.name = "detach" /\ MatchPositions(m_Callables, op'.probe, store) # {}) =>
        LET M == MatchPositions(m_Callables, op'.probe, store)
            k == CHOOSE i \in M : \A j \in M : i <= j
        IN /\ m_Callables' = Without(m_Callables, k)
           /\ ~ub' ]_vars

C2_Witness ==
  /\ op.name = "detach"
  /\ op.removed = 1
  /\ ~ub
  /\ \E i, j \in DOMAIN m_Callables :
       /\ i < j
       /\ ~compare(op.probe, m_Callables[i], store)
       /\ compare(op.probe, m_Callables[j], store)

\* C3: detach_all removes every record that matches the probe and no other
\* record; the remaining records keep their previous relative order.
NotMatching(cs, p, st) == SelectSeq(cs, LAMBDA c : ~compare(p, c, st))

C3_DetachAllRemovesExactlyMatches ==
  [][ op'.name = "detach_all" =>
        /\ m_Callables' = NotMatching(m_Callables, op'.probe, store)
        /\ ~ub' ]_vars

C3_Witness ==
  /\ op.name = "detach_all"
  /\ op.removed >= 2
  /\ Len(m_Callables) >= 1
  /\ ~ub

\* C4: detach with no matching record (empty registry included) is a no-op:
\* it does not fail and leaves the registry as it was.
C4_DetachNoMatchIsNoOp ==
  [][ (op'.name = "detach" /\ MatchPositions(m_Callables, op'.probe, store) = {}) =>
        /\ m_Callables' = m_Callables
        /\ ~ub' ]_vars

\* C5: detach_all with no matching record (empty registry included) does not
\* fail and leaves the registry with the same records in the same order.
C5_DetachAllNoMatchIsNoOp ==
  [][ (op'.name = "detach_all" /\ \A i \in DOMAIN m_Callables :
                                     ~compare(op'.probe, m_Callables[i], store)) =>
        /\ m_Callables' = m_Callables
        /\ ub' = ub
        /\ op'.removed = 0 ]_vars

C5_Witness ==
  /\ op.name = "detach_all"
  /\ op.removed = 0
  /\ Len(m_Callables) >= 2
  /\ ~ub

\* C6: over any interleaving of attach, detach (with a match), detach_all,
\* clear and invoke, the registry is the attached and not yet removed records
\* in attachment order, and each invoke call calls exactly those, each once,
\* in that order; the logging lambdas extend the log accordingly
\* (attach L1, L2, L3; invoke; detach(L2); invoke gives [1,2,3,1,3]).
C6_InvokeCallsCurrentRegistry ==
  [][ /\ (op'.name = "attach" => m_Callables' = Append(m_Callables, op'.probe))
      /\ (op'.name = "detach" =>
            LET M == MatchPositions(m_Callables, op'.probe, store)
            IN /\ M # {}
               /\ m_Callables' = Without(m_Callables, CHOOSE i \in M : \A j \in M : i <= j))
      /\ (op'.name = "detach_all" =>
            m_Callables' = NotMatching(m_Callables, op'.probe, store))
      /\ (op'.name = "clear" => m_Callables' = <<>>)
      /\ (op'.name = "invoke" =>
            /\ m_Callables' = m_Callables
            /\ EachOnceInOrder(calls', m_Callables)
            /\ log' = log \o [i \in 1..Len(m_Callables) |->
                                LambdaIndex(m_Callables[i].m_Func)])
      /\ ~ub' ]_vars

C6_Witness ==
  /\ op.name = "invoke"
  /\ m_Callables = <<generic_callable_handle(Lvalue("L1")),
                     generic_callable_handle(Lvalue("L3"))>>
  /\ log = <<1, 2, 3, 1, 3>>

\* C7: attach does no duplicate detection: every attach appends one record at
\* the end even when an identical record is present; one invoke call calls a
\* record attached k times k times; detach_all on it leaves no matching record.
Occurrences(cs, r) == Cardinality({k \in DOMAIN cs : cs[k] = r})

C7_AttachKeepsDuplicates ==
  [][ /\ (op'.name = "attach" =>
            /\ m_Callables' = Append(m_Callables, op'.probe)
            /\ Occurrences(m_Callables', op'.probe) = Occurrences(m_Callables, op'.probe) + 1)
      /\ (op'.name = "invoke" =>
            \A j \in DOMAIN m_Callables :
              Cardinality({i \in DOMAIN calls' :
                             /\ calls'[i].pos \in DOMAIN m_Callables
                             /\ m_Callables[calls'[i].pos] = m_Callables[j]})
                = Occurrences(m_Callables, m_Callables[j]))
      /\ (op'.name = "detach_all" =>
            MatchPositions(m_Callables', op'.probe, store') = {}) ]_vars

C7_Witness ==
  /\ op.name = "detach_all"
  /\ op.probe.variant = "object"
  /\ op.removed >= 2
  /\ MatchPositions(m_Callables, op.probe, store) = {}

\* C8: detach or detach_all of (objA, f) never removes a record bound to
\* another object or another member function: a bound-method probe matches
\* only on equal object address and equal member-function pointer.
OtherBound(cs, p) ==
  SelectSeq(cs, LAMBDA c : /\ c.variant = "object"
                           /\ (c.m_Obj # p.m_Obj \/ c.m_MemFunc # p.m_MemFunc))

C8_BoundIdentityDistinct ==
  [][ (op'.name \in {"detach", "detach_all"} /\ op'.probe.variant = "object") =>
        OtherBound(m_Callables', op'.probe) = OtherBound(m_Callables, op'.probe) ]_vars

\* C9: comparison across variants is always false: detach and detach_all with
\* a plain probe never remove a bound-method record, and with a bound-method
\* probe never remove a plain record.
OfVariant(cs, v) == SelectSeq(cs, LAMBDA c : c.variant = v)

C9_NoCrossVariantRemoval ==
  [][ (op'.name \in {"detach", "detach_all"}) =>
        LET v == IF op'.probe.variant = "generic" THEN "object" ELSE "generic"
        IN OfVariant(m_Callables', v) = OfVariant(m_Callables, v) ]_vars

\* C10: clear leaves the registry empty whatever it held; an invoke call
\* directly after clear performs zero invocations and does not fail.
C10_ClearThenInvokeCallsNothing ==
  [][ /\ (op'.name = "clear" => m_Callables' = <<>> /\ ~ub')
      /\ (op.name = "clear" /\ op'.name = "invoke" =>
            /\ calls' = <<>>
            /\ m_Callables' = <<>>
            /\ ~ub') ]_vars

C10_Witness ==
  /\ op.name = "clear"
  /\ op.removed >= 2
  /\ m_Callables = <<>>
  /\ ~ub

\* C13: the identity of a plain record is the equality of its stored callable
\* value alone: after detach_all with a plain probe built from value v, no
\* plain record of that callable type holding a value equal to v is left,
\* whether the record or the probe was built from an lvalue or an rvalue.
SameValue(c, p, st) ==
  /\ c.variant = "generic"
  /\ c.T.type = p.T.type
  /\ FuncValue(c, st) = FuncValue(p, st)

C13_PlainIdentityIsValue ==
  [][ (op'.name = "detach_all" /\ op'.probe.variant = "generic") =>
        \A i \in DOMAIN m_Callables' :
          ~SameValue(m_Callables'[i], op'.probe, store') ]_vars

\* C14: a plain record owns its callable by value: when the caller reassigns
\* the variable it attached, the callable every record invokes stays the one
\* the variable held at attach time.
C14_PlainRecordOwnsValue ==
  [][ op'.name = "assign" =>
        \A i \in DOMAIN m_Callables :
          invoke(m_Callables[i], store') = invoke(m_Callables[i], store) ]_vars

\* C19: attach(c) directly followed by detach(c) leaves the registry length
\* and the multiset of records as before the attach; the order is restored
\* exactly when no record matching c was present before the attach, otherwise
\* the earliest earlier match is removed and the new record stays at the end.
C19_AttachThenDetach ==
  [][ (op.name = "attach" /\ op'.name = "detach" /\ op'.probe = op.probe) =>
        LET before == SubSeq(m_Callables, 1, Len(m_Callables) - 1)
            M      == MatchPositions(before, op.probe, store)
        IN /\ ~ub'
           /\ Len(m_Callables') = Len(before)
           /\ \A i \in DOMAIN before :
                Occurrences(m_Callables', before[i]) = Occurrences(before, before[i])
           /\ (M = {} => m_Callables' = before)
           /\ (M # {} =>
                 /\ m_Callables' =
                      Without(before, CHOOSE i \in M : \A j \in M : i <= j) \o <<op.probe>>
                 /\ (m_Callables' = before <=>
                       \A i \in DOMAIN before :
                         i >= (CHOOSE k \in M : \A j \in M : k <= j) =>
                           before[i] = op.probe)) ]_vars

C19_Witness ==
  /\ op.name = "detach"
  /\ op.removed = 1
  /\ ~ub
  /\ Len(m_Callables) >= 2
  /\ m_Callables[Len(m_Callables)] = op.probe
  /\ m_Callables[1] # op.probe

\* C11: in one invoke call every record receives the argument values the
\* caller passed; a record called earlier in the sweep does not change what
\* the records called after it see.
C11_SameArgumentsForAll ==
  op.name = "invoke" => \A i \in DOMAIN calls : calls[i].arg = op.arg

\* C12: when the record at position k throws during an invoke call, the
\* records before k have each been called once, in order, no record after k
\* is called, the exception reaches the caller unchanged and the registry is
\* as it was before the call.
Throwers(cs, st) ==
  {i \in DOMAIN cs : cs[i].variant = "generic" /\
                     (IF cs[i].T.isRef THEN st[cs[i].m_Func] ELSE cs[i].m_Func) \in ThrowVals}

C12_ThrowAbortsSweep ==
  [][ op'.name = "invoke" =>
        LET T == Throwers(m_Callables, store)
        IN /\ m_Callables' = m_Callables
           /\ ~ub'
           /\ (T = {} => op'.thrown = "none" /\ Len(calls') = Len(m_Callables))
           /\ (T # {} =>
                 LET k == CHOOSE i \in T : \A j \in T : i <= j
                 IN /\ Len(calls') = k
                    /\ \A i \in 1..k : calls'[i].pos = i
                    /\ op'.thrown = m_Callables[k].m_Func) ]_vars

C12_Witness ==
  /\ op.name = "invoke"
  /\ op.thrown # "none"
  /\ Len(calls) >= 2
  /\ Len(calls) < Len(m_Callables)

\* C18: an invoke call whose callbacks do not call back into the dispatcher
\* leaves the registry unchanged, so two consecutive invoke calls with no
\* operation between them call the same sequence of records.
C18_InvokeLeavesRegistry ==
  [][ /\ (op'.name = "invoke" => m_Callables' = m_Callables /\ ub' = ub)
      /\ (op.name = "invoke" /\ op'.name = "invoke" =>
            /\ Len(calls') = Len(calls)
            /\ \A i \in DOMAIN calls :
                 /\ calls'[i].pos = calls[i].pos
                 /\ calls'[i].target = calls[i].target) ]_vars

C18_Witness ==
  /\ op.name = "invoke"
  /\ Len(calls) >= 2
  /\ calls[1].target # calls[2].target
  /\ m_Callables # <<>>

\* C15: record lifecycle: after every operation the live handles are exactly
\* the registry entries (one owner each, none null, none destroyed), a handle
\* that left the registry was destroyed exactly once, handles are created only
\* by attach (one per call), and detach and detach_all add no entry (their
\* probe never becomes one); after the dispatcher is destroyed none is live.
\* ub records that erase(end()) ran: the destructor of the slot past the last
\* record was run, a slot that holds no record attach created.
Owned == {ptrs[i] : i \in DOMAIN ptrs}

LifecycleInv ==
  /\ Len(ptrs) = Len(m_Callables)
  /\ \A i \in DOMAIN ptrs : ptrs[i] \in 1..Len(destroyed)
  /\ \A i, j \in DOMAIN ptrs : i # j => ptrs[i] # ptrs[j]
  /\ \A id \in 1..Len(destroyed) : destroyed[id] = (IF id \in Owned THEN 0 ELSE 1)
  /\ (op.name = "destroy" => ptrs = <<>>)
  /\ ~ub

C15_RecordLifecycle ==
  [][ /\ LifecycleInv'
      /\ (Len(destroyed') # Len(destroyed) =>
            /\ op'.name = "attach"
            /\ Len(destroyed') = Len(destroyed) + 1
            /\ ptrs' = Append(ptrs, Len(destroyed'))
            /\ destroyed'[Len(destroyed')] = 0)
      /\ (op'.name \in {"detach", "detach_all", "clear", "invoke", "destroy"} =>
            Owned' \subseteq Owned) ]_vars

\* C16: during a sweep in which a callback attaches to, detaches from or
\* clears the same dispatcher, every read the sweep makes of a registry
\* position is the read of a live entry through an iterator that the
\* callback did not invalidate (so every record it invokes is live).
C16_SweepReadsLiveEntries == iter.read # "invalid"

\* C17: only invoke calls callbacks: attach, detach, detach_all and clear
\* call nothing and dereference no bound object, so none of them accesses a
\* dead object; detach and detach_all of a bound-method record whose object
\* is dead remove the record (the first match, every match) without reaching
\* an invalid state.
C17_OnlyInvokeCalls ==
  [][ /\ (calls' # <<>> \/ touched' # {} => op'.name = "invoke")
      /\ (op'.name \in {"attach", "detach", "detach_all", "clear"} =>
            calls' = <<>> /\ touched' = {} /\ ~InvalidAccess')
      /\ \A k \in DOMAIN m_Callables :
           (/\ op'.name \in {"detach", "detach_all"}
            /\ op'.probe.variant = "object"
            /\ op'.probe.m_Obj \in dead
            /\ k = find_if(m_Callables, 1, op'.probe, store)) =>
             /\ ~ub'
             /\ op'.name = "detach" => m_Callables' = Without(m_Callables, k)
             /\ op'.name = "detach_all" =>
                  m_Callables' = NotMatching(m_Callables, op'.probe, store) ]_vars

C17_Witness ==
  /\ op.name = "detach"
  /\ op.probe.variant = "object"
  /\ op.probe.m_Obj \in dead
  /\ op.removed = 1
  /\ ~ub
  /\ \E k \in DOMAIN m_Callables :
       m_Callables[k].variant = "object" /\ m_Callables[k].m_Obj \in dead

====
